---- MODULE Spec2Model ----
(***************************************************************************)
(* WaveCutter audio engine (lib/audio-utils.ts).                           *)
(*                                                                         *)
(*  - the single-voice player: playAudio / stopAudio / progressLoop and    *)
(*    the source's onended handler, driven by the host's event loop        *)
(*    (animation frames, 'ended' events of AudioBufferSourceNodes);        *)
(*  - findPeaks, the transient segmenter, as a pure operator.              *)
(*                                                                         *)
(* Amplitudes are integers in units of 1/10 of full scale (5 = 0.5).       *)
(***************************************************************************)
EXTENDS Integers, Sequences, FiniteSets, TLC

\* ------------------------------------------------------------------ bounds
MaxSessions == 2     \* playAudio calls in one behaviour
MaxFrames   == 4     \* animation frames requested in one behaviour
MaxStops    == 2     \* stopAudio calls made by the UI in one behaviour
MaxLen      == 5     \* samples per channel of an enumerated buffer
MaxMinHalves == 4    \* minSliceDuration, in half seconds

VARIABLES
    \* --- module state of the player (audio-utils.ts, "Audio Player")
    audioContext,       \* "null" | "running"
    source,             \* 0 (null) or the id of the current AudioBufferSourceNode
    animationFrameId,   \* 0 (null) or the id of the last requested frame
    onProgressGlobal,   \* 0 (null) or the session whose onProgress is stored
    \* --- the host: Web Audio nodes, event loop
    nodes,              \* node id -> [state, loop, onended, connected, onEndedCb]
    frames,             \* pending animation frame callbacks: [id, owner]
    endedEvents,        \* nodes with a queued, not yet dispatched 'ended' event
    nextFrame,          \* last id handed out by requestAnimationFrame
    raised,             \* exception that left the last call, or "none"
    caught,             \* the last call ran stopAudio's catch block
    \* --- observation
    log,                \* API calls made and callbacks invoked, in order
    \* --- findPeaks harness
    pc,                 \* "player" | "input" | "done"
    channels,           \* the AudioBuffer's channel data
    sampleRate,
    threshold,          \* in 1/10 of full scale
    minSliceHalves,     \* minSliceDuration in half seconds
    now,                \* Date.now() reading
    slices,             \* result of findPeaks
    \* --- pure function harness
    thrown,             \* error thrown by the last call, or "none"
    blob,               \* bytes of the Blob returned by bufferToWav
    \* --- page state and sample storage
    storage,            \* Float32Array id -> its samples
    audioBuffer,        \* the loaded AudioBuffer: its channels' array ids
    result,             \* the AudioBuffer concatenateAudioBuffers returned last
    tempContexts,       \* AudioContexts opened by concatenation and left open
    toasts,             \* titles of the notifications shown
    downloads,          \* number of files handed to the browser
    playingSliceId,     \* page state: the item shown as playing
    lastCall,           \* what the last handler did
    \* --- player timing, in ticks of the audio clock
    currentTime,        \* audioContext.currentTime
    playbackStartTime,  \* module variable playbackStartTime
    loopDuration,       \* module variable loopDuration
    windowEnd,          \* clock reading at which the source finishes, -1: never
    bufferDuration,     \* audioBuffer.duration
    onProgressUi,       \* the onProgress closure the UI passed last
    playbackProgress    \* page state: where the cursor is drawn

playerVars == <<audioContext, source, animationFrameId, onProgressGlobal,
                nodes, frames, endedEvents, nextFrame, raised, caught, log>>
peakVars   == <<channels, sampleRate, threshold, minSliceHalves, now, slices>>
pageVars   == <<storage, audioBuffer, result, tempContexts, toasts, downloads,
                playingSliceId, lastCall>>
timeVars   == <<currentTime, playbackStartTime, loopDuration, windowEnd,
                bufferDuration, onProgressUi, playbackProgress>>
otherVars  == <<thrown, blob, pageVars, timeVars>>
vars       == <<playerVars, peakVars, otherVars, pc>>

Sessions == 1..MaxSessions

NoNode == [state |-> "none", loop |-> FALSE, onended |-> FALSE,
           connected |-> FALSE, onEndedCb |-> FALSE]

\* The player's state as one value, so that the functions of the source can
\* be written as operators from state to state.
Cur == [audioContext |-> audioContext, source |-> source,
        animationFrameId |-> animationFrameId,
        onProgressGlobal |-> onProgressGlobal, nodes |-> nodes,
        frames |-> frames, endedEvents |-> endedEvents,
        nextFrame |-> nextFrame, raised |-> raised, caught |-> caught,
        log |-> log]

Commit(p) ==
    /\ audioContext' = p.audioContext
    /\ source' = p.source
    /\ animationFrameId' = p.animationFrameId
    /\ onProgressGlobal' = p.onProgressGlobal
    /\ nodes' = p.nodes
    /\ frames' = p.frames
    /\ endedEvents' = p.endedEvents
    /\ nextFrame' = p.nextFrame
    /\ raised' = p.raised
    /\ caught' = p.caught
    /\ log' = p.log

NumCreated(p) == Cardinality({s \in Sessions : p.nodes[s].state # "none"})

\* Idle: no session, no polling, no callback kept, nothing sounding.
IdleIn(p) ==
    /\ p.source = 0
    /\ p.animationFrameId = 0
    /\ p.onProgressGlobal = 0
    /\ p.frames = {}
    /\ \A s \in Sessions : /\ p.nodes[s].state # "playing"
                            /\ ~p.nodes[s].connected
                            /\ ~p.nodes[s].onended

\* One entry of the observation log.  s: the session the entry is about
\* (0 for stopAudio); cur: the engine's source when the entry was made;
\* ev: an 'ended' event of the subject session was queued at that moment;
\* fr: an animation frame was pending at that moment; idle: the engine was
\* Idle at that moment; loop: the loop argument of a playAudio call;
\* caught: the stopAudio() call swallowed an error of source.stop().
Entry(p, op, s, subject) ==
    [op |-> op, s |-> s, cur |-> p.source,
     ev |-> subject \in p.endedEvents, fr |-> p.frames # {},
     idle |-> IdleIn(p), loop |-> FALSE, caught |-> FALSE]

Observe(p, op, s, subject) ==
    [p EXCEPT !.log = Append(@, Entry(p, op, s, subject))]

\* ------------------------------------------------------------ host model
\* window.requestAnimationFrame(progressLoop): a fresh non-zero handle.
requestAnimationFrame(p) ==
    [p EXCEPT !.nextFrame = @ + 1,
              !.frames = @ \cup {[id |-> p.nextFrame + 1, owner |-> p.source]}]

cancelAnimationFrame(p, id) ==
    [p EXCEPT !.frames = {f \in @ : f.id # id}]

\* AudioBufferSourceNode.stop(): InvalidStateError when start() was never
\* called; implementations that predate the standard also report an error
\* for a source that has already finished (quirk).
StopThrows(n, quirk) ==
    \/ n.state = "created"
    \/ quirk /\ n.state \in {"ended", "stopped"}

\* A playing source that is stopped goes silent and gets an 'ended' event.
NodeStop(p, s) ==
    IF p.nodes[s].state = "playing"
    THEN [p EXCEPT !.nodes[s].state = "stopped", !.endedEvents = @ \cup {s}]
    ELSE p

\* --------------------------------------------------------------- player
getAudioContext(p) ==
    IF p.audioContext = "null" THEN [p EXCEPT !.audioContext = "running"] ELSE p

stopAudio_noCancel(p, quirk) ==
    LET p2 == IF p.source # 0
              THEN LET s == p.source
                       a == [p EXCEPT !.nodes[s].onended = FALSE]
                       b == IF StopThrows(a.nodes[s], quirk)
                            THEN [a EXCEPT !.caught = TRUE]
                            ELSE NodeStop(a, s)
                   IN  [b EXCEPT !.nodes[s].connected = FALSE, !.source = 0]
              ELSE p
    IN  [p2 EXCEPT !.onProgressGlobal = 0]

stopAudio_keepHandler(p, quirk) ==
    LET p1 == IF p.animationFrameId # 0
              THEN [cancelAnimationFrame(p, p.animationFrameId)
                      EXCEPT !.animationFrameId = 0]
              ELSE p
        p2 == IF p1.source # 0
              THEN LET s == p1.source
                       b == IF StopThrows(p1.nodes[s], quirk)
                            THEN [p1 EXCEPT !.caught = TRUE]
                            ELSE NodeStop(p1, s)
                   IN  [b EXCEPT !.nodes[s].connected = FALSE, !.source = 0]
              ELSE p1
    IN  [p2 EXCEPT !.onProgressGlobal = 0]

stopAudio_noCatch(p, quirk) ==
    LET p1 == IF p.animationFrameId # 0
              THEN [cancelAnimationFrame(p, p.animationFrameId)
                      EXCEPT !.animationFrameId = 0]
              ELSE p
    IN  IF p1.source # 0
        THEN LET s == p1.source
                 a == [p1 EXCEPT !.nodes[s].onended = FALSE]
             IN  IF StopThrows(a.nodes[s], quirk)
                 THEN [a EXCEPT !.raised = "InvalidStateError"]
                 ELSE [NodeStop(a, s) EXCEPT !.nodes[s].connected = FALSE,
                                             !.source = 0,
                                             !.onProgressGlobal = 0]
        ELSE [p1 EXCEPT !.onProgressGlobal = 0]

stopAudio(p, quirk) ==
    LET p1 == IF p.animationFrameId # 0
              THEN [cancelAnimationFrame(p, p.animationFrameId)
                      EXCEPT !.animationFrameId = 0]
              ELSE p
        p2 == IF p1.source # 0
              THEN LET s == p1.source
                       a == [p1 EXCEPT !.nodes[s].onended = FALSE]
                       \* try { source.stop() } catch (e) { }
                       b == IF StopThrows(a.nodes[s], quirk)
                            THEN [a EXCEPT !.caught = TRUE]
                            ELSE NodeStop(a, s)
                   IN  [b EXCEPT !.nodes[s].connected = FALSE, !.source = 0]
              ELSE p1
    IN  [p2 EXCEPT !.onProgressGlobal = 0]

progressLoop(p) ==
    IF p.source # 0 /\ p.audioContext # "null" /\ p.onProgressGlobal # 0
    THEN LET p1 == Observe(p, "onProgress", p.onProgressGlobal, p.onProgressGlobal)
             p2 == requestAnimationFrame(p1)
         IN  [p2 EXCEPT !.animationFrameId = p2.nextFrame]
    ELSE p

onended_noStop(p, s, quirk) ==
    IF p.source = 0 \/ ~p.nodes[p.source].loop
    THEN IF p.nodes[s].onEndedCb THEN Observe(p, "onEnded", s, s) ELSE p
    ELSE p

\* source.onended of session s: () => { if (!source?.loop) { stopAudio(); onEnded?.() } }
onended(p, s, quirk) ==
    IF p.source = 0 \/ ~p.nodes[p.source].loop
    THEN LET p1 == stopAudio(p, quirk)
         IN  IF p1.raised # "none" THEN p1
             ELSE IF p1.nodes[s].onEndedCb THEN Observe(p1, "onEnded", s, s)
             ELSE p1
    ELSE p

playAudio_noStop(p, loop, hasOnEnded, hasOnProgress, startOk, quirk) ==
    LET p2 == getAudioContext(p)
        s  == NumCreated(p) + 1
        p3 == [p2 EXCEPT !.source = s,
                         !.nodes[s] = [state |-> "created", loop |-> loop,
                                       onended |-> TRUE, connected |-> TRUE,
                                       onEndedCb |-> hasOnEnded]]
    IN  IF ~startOk THEN [p3 EXCEPT !.raised = "RangeError"]
        ELSE LET p4 == [p3 EXCEPT !.nodes[s].state = "playing",
                                  !.onProgressGlobal = IF hasOnProgress THEN s ELSE 0]
             IN  IF p4.onProgressGlobal # 0
                 THEN LET p5 == requestAnimationFrame(p4)
                      IN  [p5 EXCEPT !.animationFrameId = p5.nextFrame]
                 ELSE p4

playAudio_noLoopFlag(p, loop, hasOnEnded, hasOnProgress, startOk, quirk) ==
    LET p1 == stopAudio(p, quirk)
        p2 == getAudioContext(p1)
        s  == NumCreated(p) + 1
        p3 == [p2 EXCEPT !.source = s,
                         !.nodes[s] = [state |-> "created", loop |-> FALSE,
                                       onended |-> TRUE, connected |-> TRUE,
                                       onEndedCb |-> hasOnEnded]]
    IN  IF p1.raised # "none" THEN p1
        ELSE IF ~startOk THEN [p3 EXCEPT !.raised = "RangeError"]
        ELSE LET p4 == [p3 EXCEPT !.nodes[s].state = "playing",
                                  !.onProgressGlobal = IF hasOnProgress THEN s ELSE 0]
             IN  IF p4.onProgressGlobal # 0
                 THEN LET p5 == requestAnimationFrame(p4)
                      IN  [p5 EXCEPT !.animationFrameId = p5.nextFrame]
                 ELSE p4

playAudio_pollFirst(p, loop, hasOnEnded, hasOnProgress, startOk, quirk) ==
    LET p1 == stopAudio(p, quirk)
        p2 == getAudioContext(p1)
        s  == NumCreated(p) + 1
        p3 == [p2 EXCEPT !.source = s,
                         !.nodes[s] = [state |-> "created", loop |-> loop,
                                       onended |-> TRUE, connected |-> TRUE,
                                       onEndedCb |-> hasOnEnded],
                         !.onProgressGlobal = IF hasOnProgress THEN s ELSE 0]
        p4 == IF p3.onProgressGlobal # 0
              THEN LET p5 == requestAnimationFrame(p3)
                   IN  [p5 EXCEPT !.animationFrameId = p5.nextFrame]
              ELSE p3
    IN  IF p1.raised # "none" THEN p1
        ELSE IF ~startOk THEN [p4 EXCEPT !.raised = "RangeError"]
        ELSE [p4 EXCEPT !.nodes[s].state = "playing"]

\* startOk: source.start(0, start, duration) accepts its arguments (it
\* raises RangeError for a negative offset or duration).
playAudio(p, loop, hasOnEnded, hasOnProgress, startOk, quirk) ==
    LET p1 == stopAudio(p, quirk)
        p2 == getAudioContext(p1)
        s  == NumCreated(p) + 1
        p3 == [p2 EXCEPT !.source = s,
                         !.nodes[s] = [state |-> "created", loop |-> loop,
                                       onended |-> TRUE, connected |-> TRUE,
                                       onEndedCb |-> hasOnEnded]]
    IN  IF p1.raised # "none" THEN p1
        ELSE IF ~startOk THEN [p3 EXCEPT !.raised = "RangeError"]
        ELSE LET p4 == [p3 EXCEPT !.nodes[s].state = "playing",
                                  !.onProgressGlobal = IF hasOnProgress THEN s ELSE 0]
             IN  IF p4.onProgressGlobal # 0
                 THEN LET p5 == requestAnimationFrame(p4)
                      IN  [p5 EXCEPT !.animationFrameId = p5.nextFrame]
                 ELSE p4

NumStops == Cardinality({i \in DOMAIN log : log[i].op = "stop"})

\* ---------------------------------------------------------- player actions
\* Every caller passes an onEnded callback (page.tsx, slice list, waveform).
OnEndedArgs == {TRUE}

\* The UI calls playAudio(buffer, start, duration, loop, onEnded, onProgress).
CallPlayAudio ==
    /\ pc = "player"
    /\ NumCreated(Cur) < MaxSessions
    /\ \E loop, hasOnProgress, startOk, quirk \in BOOLEAN, hasOnEnded \in OnEndedArgs :
          /\ hasOnProgress => nextFrame < MaxFrames
          /\ LET s  == NumCreated(Cur) + 1
                 e  == [Entry(Cur, "play", s, source) EXCEPT !.loop = loop]
                 p0 == [Cur EXCEPT !.log = Append(@, e), !.raised = "none",
                                   !.caught = FALSE]
             IN  Commit(playAudio(p0, loop, hasOnEnded, hasOnProgress, startOk, quirk))
    /\ UNCHANGED <<peakVars, otherVars, pc>>

\* The UI calls stopAudio().
CallStopAudio ==
    /\ pc = "player"
    /\ NumStops < MaxStops
    /\ \E quirk \in BOOLEAN :
          LET p0 == [Cur EXCEPT !.raised = "none", !.caught = FALSE]
              p1 == stopAudio(p0, quirk)
              e  == [Entry(Cur, "stop", 0, source) EXCEPT !.caught = p1.caught]
          IN  Commit([p1 EXCEPT !.log = Append(@, e)])
    /\ UNCHANGED <<peakVars, otherVars, pc>>

\* The audio thread reaches the end of a non-looping source's window.
SourceEnds ==
    /\ pc \in {"player", "ui"}
    /\ \E s \in Sessions :
          /\ nodes[s].state = "playing"
          /\ ~nodes[s].loop
          /\ nodes' = [nodes EXCEPT ![s].state = "ended"]
          /\ endedEvents' = endedEvents \cup {s}
    /\ UNCHANGED <<audioContext, source, animationFrameId, onProgressGlobal,
                   frames, nextFrame, raised, caught, log, peakVars, otherVars, pc>>

\* The event loop dispatches a queued 'ended' event to the node's handler.
DispatchEnded ==
    /\ pc = "player"
    /\ \E s \in endedEvents, quirk \in BOOLEAN :
          LET p0 == [Cur EXCEPT !.endedEvents = @ \ {s}, !.raised = "none",
                                !.caught = FALSE]
          IN  Commit(IF nodes[s].onended THEN onended(p0, s, quirk) ELSE p0)
    /\ UNCHANGED <<peakVars, otherVars, pc>>

\* The host runs a pending animation frame callback (progressLoop).
AnimationFrame ==
    /\ pc = "player"
    /\ nextFrame < MaxFrames
    /\ \E f \in frames :
          LET p0 == [Cur EXCEPT !.frames = @ \ {f}, !.raised = "none",
                                !.caught = FALSE]
          IN  Commit(progressLoop(p0))
    /\ UNCHANGED <<peakVars, otherVars, pc>>

PlayerInit ==
    /\ audioContext = "null"
    /\ source = 0
    /\ animationFrameId = 0
    /\ onProgressGlobal = 0
    /\ nodes = [s \in Sessions |-> NoNode]
    /\ frames = {}
    /\ endedEvents = {}
    /\ nextFrame = 0
    /\ raised = "none"
    /\ caught = FALSE
    /\ log = <<>>

PeaksIdle ==
    /\ channels = <<>>
    /\ sampleRate = 1
    /\ threshold = 0
    /\ minSliceHalves = 0
    /\ now = 0
    /\ slices = <<>>

NoBuffer == [data |-> <<>>, sampleRate |-> 0]
NoCall   == [op |-> "none", called |-> FALSE, threw |-> FALSE, played |-> FALSE,
             input |-> <<>>]

PageIdle ==
    /\ storage = <<>>
    /\ audioBuffer = NoBuffer
    /\ result = NoBuffer
    /\ tempContexts = 0
    /\ toasts = <<>>
    /\ downloads = 0
    /\ playingSliceId = "null"
    /\ lastCall = NoCall

NoProgress == [num |-> 0, den |-> 0]
NoClosure  == [kind |-> "none", startInSeconds |-> 0]

TimeIdle ==
    /\ currentTime = 0
    /\ playbackStartTime = 0
    /\ loopDuration = 0
    /\ windowEnd = -1
    /\ bufferDuration = 0
    /\ onProgressUi = NoClosure
    /\ playbackProgress = NoProgress

OtherIdle ==
    /\ thrown = "none"
    /\ blob = <<>>
    /\ PageIdle
    /\ TimeIdle

Init == PlayerInit /\ PeaksIdle /\ OtherIdle /\ pc = "player"

Next == CallPlayAudio \/ CallStopAudio \/ SourceEnds \/ DispatchEnded \/ AnimationFrame

Spec == Init /\ [][Next]_vars

\* progressLoop when the onProgress callback itself calls the engine: the
\* callback runs to its end, then progressLoop requests the next frame.  An
\* error raised by the callback leaves progressLoop before that request.
Callbacks == {"stopAudio", "playAudio"}

progressLoopCalling(p, callback, loop, startOk, quirk) ==
    IF p.source # 0 /\ p.audioContext # "null" /\ p.onProgressGlobal # 0
    THEN LET p1 == Observe(p, "onProgress", p.onProgressGlobal, p.onProgressGlobal)
             p2 == IF callback = "stopAudio"
                   THEN stopAudio(p1, quirk)
                   ELSE playAudio(p1, loop, TRUE, TRUE, startOk, quirk)
             p3 == requestAnimationFrame(p2)
         IN  IF p2.raised # "none" THEN p2
             ELSE [p3 EXCEPT !.animationFrameId = p3.nextFrame]
    ELSE p

\* The host runs a pending animation frame callback whose onProgress calls
\* stopAudio() or playAudio().
AnimationFrameCalling ==
    /\ pc = "player"
    /\ nextFrame + 2 <= MaxFrames
    /\ \E f \in frames, callback \in Callbacks, loop, startOk, quirk \in BOOLEAN :
          /\ callback = "playAudio" => NumCreated(Cur) < MaxSessions
          /\ LET p0 == [Cur EXCEPT !.frames = @ \ {f}, !.raised = "none",
                                   !.caught = FALSE]
             IN  Commit(progressLoopCalling(p0, callback, loop, startOk, quirk))
    /\ UNCHANGED <<peakVars, otherVars, pc>>

NextCalling == Next \/ AnimationFrameCalling

SpecCalling == Init /\ [][NextCalling]_vars

\* ------------------------------------------------------------- findPeaks
Abs(x) == IF x < 0 THEN -x ELSE x

\* An AudioBuffer: [channels |-> <<Float32Array, ...>>, sampleRate |-> n].
getChannelData(buffer, c) == buffer.channels[c + 1]

\* audioData[i] for the 0-based index i of the source.
At(audioData, i) == audioData[i + 1]

IsTransient_strict(audioData, th, i) ==
    Abs(At(audioData, i)) > th /\ Abs(At(audioData, i - 1)) < th

\* Detect a transient: silence followed by sound.
IsTransient(audioData, th, i) ==
    Abs(At(audioData, i)) > th /\ Abs(At(audioData, i - 1)) <= th

\* minSliceSamples = minSliceDuration * sampleRate, kept doubled so that a
\* duration given in half seconds stays an integer.
MinSliceSamples2(minHalves, rate) == minHalves * rate

LongEnough_strict(n, min2) == 2 * n > min2

\* sliceEnd - sliceStart >= minSliceSamples
LongEnough(n, min2) == 2 * n >= min2

ScanStep_moveBoundary(audioData, th, min2, i, st) ==
    LET sliceStart == st.lastSliceEnd
        sliceEnd   == i
    IN  IF IsTransient(audioData, th, i) /\ LongEnough(sliceEnd - sliceStart, min2)
        THEN [slices |-> Append(st.slices, [start |-> sliceStart, end |-> sliceEnd]),
              lastSliceEnd |-> sliceEnd]
        ELSE IF IsTransient(audioData, th, i)
        THEN [st EXCEPT !.lastSliceEnd = sliceEnd]
        ELSE st

\* One iteration of the scan loop at index i: st = [slices, lastSliceEnd].
ScanStep(audioData, th, min2, i, st) ==
    LET sliceStart == st.lastSliceEnd
        sliceEnd   == i
    IN  IF IsTransient(audioData, th, i) /\ LongEnough(sliceEnd - sliceStart, min2)
        THEN [slices |-> Append(st.slices, [start |-> sliceStart, end |-> sliceEnd]),
              lastSliceEnd |-> sliceEnd]
        ELSE st

\* for (let i = lo; i < hi; i++): the iterations in ascending order of i.
\* The range is halved, and the state after the first half is computed
\* before the second half starts (lastSliceEnd is never negative), so that
\* the evaluation depth stays logarithmic in the length.
RECURSIVE Scan(_, _, _, _, _, _)
Scan(audioData, th, min2, lo, hi, st) ==
    IF lo >= hi THEN st
    ELSE IF hi = lo + 1 THEN ScanStep(audioData, th, min2, lo, st)
    ELSE LET mid  == (lo + hi) \div 2
             half == Scan(audioData, th, min2, lo, mid, st)
         IN  IF half.lastSliceEnd >= 0
             THEN Scan(audioData, th, min2, mid, hi, half)
             ELSE half

Remainder_noMerge(st, length, min2) ==
    IF st.lastSliceEnd < length /\ LongEnough(length - st.lastSliceEnd, min2)
    THEN Append(st.slices, [start |-> st.lastSliceEnd, end |-> length])
    ELSE st.slices

Remainder_always(st, length, min2) ==
    IF st.lastSliceEnd < length
    THEN Append(st.slices, [start |-> st.lastSliceEnd, end |-> length])
    ELSE st.slices

\* Add the final remaining part of the audio as the last slice, or append
\* it to the last slice when it is too small.
Remainder(st, length, min2) ==
    IF st.lastSliceEnd < length /\ LongEnough(length - st.lastSliceEnd, min2)
    THEN Append(st.slices, [start |-> st.lastSliceEnd, end |-> length])
    ELSE IF Len(st.slices) > 0
    THEN [st.slices EXCEPT ![Len(st.slices)].end = length]
    ELSE st.slices

\* If no slices were created, create one slice for the whole buffer.
WholeBuffer(sl, length, min2) ==
    IF Len(sl) = 0 /\ LongEnough(length, min2)
    THEN Append(sl, [start |-> 0, end |-> length])
    ELSE sl

\* findPeaks with the doubled minimum in samples given directly.
findPeaksWith(buffer, th, min2, t) ==
    LET audioData == getChannelData(buffer, 0)
        st   == Scan(audioData, th, min2, 1, Len(audioData),
                     [slices |-> <<>>, lastSliceEnd |-> 0])
        sl   == WholeBuffer(Remainder(st, Len(audioData), min2), Len(audioData), min2)
    IN  [i \in 1..Len(sl) |->
            [start |-> sl[i].start, end |-> sl[i].end,
             id |-> <<"slice_auto", t, i - 1>>, name |-> <<"Slice", i>>]]

findPeaks(buffer, th, minHalves, t) ==
    findPeaksWith(buffer, th, MinSliceSamples2(minHalves, buffer.sampleRate), t)

\* ------------------------------------------------- findPeaks: inputs
SampleValues == {-5, 0, 2, 5}
Thresholds   == {0, 2, 10}
\* thresholds outside [0, 1]: the function does not check its argument
OutOfRange   == {-1, 15}
SampleRates  == {1, 2}
Clock        == {1, 2}

RECURSIVE SeqsOfLen(_, _)
SeqsOfLen(S, n) ==
    IF n = 0 THEN {<<>>}
    ELSE {Append(q, x) : q \in SeqsOfLen(S, n - 1), x \in S}

\* A second channel that is loud exactly where the first is silent.
Inverse(c) == [i \in 1..Len(c) |-> IF c[i] = 0 THEN 5 ELSE 0]

\* Scenario A: 1000 samples, 0.5 on 100..199 and 500..549, 0 elsewhere.
ScenarioA ==
    [i \in 1..1000 |-> IF (i - 1 \in 100..199) \/ (i - 1 \in 500..549) THEN 5 ELSE 0]

Buffer == [channels |-> channels, sampleRate |-> sampleRate]

\* audioBuffer.length
Length == Len(channels[1])

PeaksInit ==
    /\ PlayerInit
    /\ OtherIdle
    /\ pc = "input"
    /\ slices = <<>>
    /\ now \in Clock
    /\ \/ /\ \E n \in 0..MaxLen : \E c \in SeqsOfLen(SampleValues, n) :
                channels \in {<<c>>, <<c, Inverse(c)>>}
          /\ sampleRate \in SampleRates
          /\ threshold \in Thresholds \cup OutOfRange
          /\ minSliceHalves \in 0..MaxMinHalves
       \/ /\ channels = <<ScenarioA>>
          /\ sampleRate = 1000
          /\ threshold = 2
          /\ minSliceHalves = 0

CallFindPeaks ==
    /\ pc = "input"
    /\ slices' = findPeaks(Buffer, threshold, minSliceHalves, now)
    /\ thrown' = "none"
    /\ pc' = "done"
    /\ UNCHANGED <<playerVars, channels, sampleRate, threshold, minSliceHalves, now, blob, pageVars, timeVars>>

NextPeaks == CallFindPeaks

SpecPeaks == PeaksInit /\ [][NextPeaks]_vars

\* ============================================================== bufferToWav
\* Sample values are tenths of full scale, as for findPeaks.  Every value
\* used below is either exactly representable as a 32-bit float or far from
\* an integer after scaling, so integer arithmetic on tenths gives the
\* result of the floating point expression.
MaxWavLen == 2

Min(a, b) == IF a < b THEN a ELSE b
Max(a, b) == IF a > b THEN a ELSE b

\* x | 0 for x = num / den: rounds toward zero.
Trunc(num, den) == IF num >= 0 THEN num \div den ELSE -((-num) \div den)

\* view.setUint16(pos, data, true) / view.setUint32(pos, data, true)
setUint16(data) == <<data % 256, (data \div 256) % 256>>
setUint32(data) ==
    <<data % 256, (data \div 256) % 256,
      (data \div 65536) % 256, (data \div 16777216) % 256>>

setInt16_bigEndian(data) ==
    LET u == (data + 65536) % 65536 IN <<(u \div 256) % 256, u % 256>>

\* view.setInt16(pos, sample, true): two's complement, low byte first
setInt16(data) ==
    LET u == (data + 65536) % 65536 IN <<u % 256, (u \div 256) % 256>>

\* clamp, then scale to a 16-bit signed integer.  The test of the source is
\* (0.5 + sample) < 0: '+' binds tighter than '<'.
ScaleSample(v) ==
    LET sample == Max(-10, Min(10, v))
    IN  IF 5 + sample < 0 THEN Trunc(sample * 32768, 10)
                          ELSE Trunc(sample * 32767, 10)

WaveHeader_monoRate(numOfChan, rate, length) ==
    setUint32(1179011410) \o setUint32(length - 8) \o setUint32(1163280727)
    \o setUint32(544501094) \o setUint32(16) \o setUint16(1)
    \o setUint16(numOfChan) \o setUint32(rate)
    \o setUint32(rate * 2) \o setUint16(numOfChan * 2)
    \o setUint16(16)
    \o setUint32(1635017060) \o setUint32(length - 40 - 4)

\* "RIFF", length - 8, "WAVE", "fmt ", 16, PCM, channels, rate, bytes/sec,
\* block align, 16 bit, "data", length - pos - 4 with pos = 40.
WaveHeader(numOfChan, rate, length) ==
    setUint32(1179011410) \o setUint32(length - 8) \o setUint32(1163280727)
    \o setUint32(544501094) \o setUint32(16) \o setUint16(1)
    \o setUint16(numOfChan) \o setUint32(rate)
    \o setUint32(rate * 2 * numOfChan) \o setUint16(numOfChan * 2)
    \o setUint16(16)
    \o setUint32(1635017060) \o setUint32(length - 40 - 4)

\* The inner for loop: one frame, channel after channel.
RECURSIVE WriteFrame(_, _, _)
WriteFrame(chans, offset, i) ==
    IF i > Len(chans) THEN <<>>
    ELSE setInt16(ScaleSample(chans[i][offset])) \o WriteFrame(chans, offset, i + 1)

\* The while loop: frames from offset on, until pos reaches length.
RECURSIVE WriteFrames(_, _, _, _)
WriteFrames(chans, offset, pos, length) ==
    IF pos >= length THEN <<>>
    ELSE WriteFrame(chans, offset, 1)
         \o WriteFrames(chans, offset + 1, pos + 2 * Len(chans), length)

\* The bytes of the returned Blob: an ArrayBuffer of `length` zero bytes
\* overwritten by the header and the samples.
bufferToWav(buffer) ==
    LET numOfChan == Len(buffer.channels)
        frames_   == Len(buffer.channels[1])
        length    == frames_ * numOfChan * 2 + 44
        written   == WaveHeader(numOfChan, buffer.sampleRate, length)
                     \o WriteFrames(buffer.channels, 1, 44, length)
    IN  [k \in 1..length |-> IF k <= Len(written) THEN written[k] ELSE 0]

WavSamples == {-15, -10, -5, -4, 0, 5, 10, 15}
WavRates   == {8000, 44100}

WavInit ==
    /\ PlayerInit
    /\ OtherIdle
    /\ pc = "wavInput"
    /\ \E n \in 0..MaxWavLen :
          \E c1 \in SeqsOfLen(WavSamples, n), c2 \in SeqsOfLen(WavSamples, n) :
              channels \in {<<c1>>, <<c1, c2>>}
    /\ sampleRate \in WavRates
    /\ threshold = 0 /\ minSliceHalves = 0 /\ now = 0 /\ slices = <<>>

CallBufferToWav ==
    /\ pc = "wavInput"
    /\ blob' = bufferToWav(Buffer)
    /\ pc' = "wavDone"
    /\ UNCHANGED <<playerVars, peakVars, thrown, pageVars, timeVars>>

NextWav == CallBufferToWav

SpecWav == WavInit /\ [][NextWav]_vars

\* ================================================== concatenateAudioBuffers
MaxSrcLen  == 3
MaxSlices  == 2
MaxOps     == 3

StorageIds == 1..4

RECURSIVE TotalLength(_)
\* slices.reduce((sum, slice) => sum + (slice.end - slice.start), 0)
TotalLength(list) ==
    IF list = <<>> THEN 0
    ELSE TotalLength(SubSeq(list, 1, Len(list) - 1))
         + (list[Len(list)].end - list[Len(list)].start)

EmptyComposition_never(totalLength) == FALSE

\* if (totalLength <= 0) throw new Error("No audio data to concatenate.")
EmptyComposition(totalLength) == totalLength <= 0

createBuffer_reuse(h, taken, numberOfChannels, length) ==
    [heap |-> [id \in DOMAIN h |->
                  IF id \in 1..numberOfChannels /\ Len(h[id]) < length
                  THEN h[id] \o [i \in 1..(length - Len(h[id])) |-> 0] ELSE h[id]],
     data |-> [c \in 1..numberOfChannels |-> c]]

\* audioContext.createBuffer(channels, length, rate): new arrays of zeros.
\* The arrays of an earlier result are garbage once the result is replaced.
createBuffer(h, taken, numberOfChannels, length) ==
    LET base == Cardinality(taken)
        ids  == [c \in 1..numberOfChannels |-> base + c]
    IN  [heap |-> [id \in DOMAIN h |->
                      IF id \in {ids[c] : c \in 1..numberOfChannels}
                      THEN [i \in 1..length |-> 0] ELSE h[id]],
         data |-> ids]

\* TypedArray.slice(start, end), for 0 <= start <= end <= length: a copy.
TypedSlice(a, start, end) == SubSeq(a, start + 1, end)

\* TypedArray.set(segment, offset)
TypedSet(a, segment, offset) ==
    [i \in 1..Len(a) |->
        IF i > offset /\ i <= offset + Len(segment) THEN segment[i - offset] ELSE a[i]]

RECURSIVE CopyChannel_noAdvance(_, _, _, _, _, _)
CopyChannel_noAdvance(h, src, dst, list, k, offset) ==
    IF k > Len(list) THEN h
    ELSE LET segment == TypedSlice(h[src], list[k].start, list[k].end)
             h2 == [h EXCEPT ![dst] = TypedSet(@, segment, offset)]
         IN  CopyChannel_noAdvance(h2, src, dst, list, k + 1, offset)

RECURSIVE CopyChannel(_, _, _, _, _, _)
\* for (const slice of slices) { segment = ...; set(segment, offset); offset += ... }
CopyChannel(h, src, dst, list, k, offset) ==
    IF k > Len(list) THEN h
    ELSE LET segment == TypedSlice(h[src], list[k].start, list[k].end)
             h2 == [h EXCEPT ![dst] = TypedSet(@, segment, offset)]
         IN  CopyChannel(h2, src, dst, list, k + 1, offset + Len(segment))

RECURSIVE CopyChannels(_, _, _, _, _)
\* for (const channel of ...keys()) { offset = 0; ... }
CopyChannels(h, src, dst, list, channel) ==
    IF channel > Len(src) THEN h
    ELSE CopyChannels(CopyChannel(h, src[channel], dst[channel], list, 1, 0),
                      src, dst, list, channel + 1)

\* The outcome of one call: the storage afterwards, the returned buffer, the
\* error thrown, and the contexts the call opened and did not close.
concatenateAudioBuffers(h, originalBuffer, list) ==
    LET totalLength == TotalLength(list) IN
    IF EmptyComposition(totalLength)
    THEN [heap |-> h, buffer |-> NoBuffer, thrown |-> "Error", open |-> 1]
    ELSE LET nb == createBuffer(h, {originalBuffer.data[c] : c \in DOMAIN originalBuffer.data},
                                Len(originalBuffer.data), totalLength)
         IN  [heap |-> CopyChannels(nb.heap, originalBuffer.data, nb.data, list, 1),
              buffer |-> [data |-> nb.data, sampleRate |-> originalBuffer.sampleRate],
              thrown |-> "none", open |-> 0]

\* buffer.getChannelData(i) for every channel
ChannelData(h, b) ==
    [channels |-> [c \in DOMAIN b.data |-> h[b.data[c]]], sampleRate |-> b.sampleRate]

\* ------------------------------------------------------- page: compose
\* concatenateAudioBuffers(audioBuffer, slices), called on its own.
CallConcatenateAudioBuffers ==
    /\ pc = "page"
    /\ audioBuffer # NoBuffer
    /\ tempContexts < MaxOps
    /\ LET r == concatenateAudioBuffers(storage, audioBuffer, slices) IN
       /\ storage' = r.heap
       /\ tempContexts' = tempContexts + r.open
       /\ thrown' = r.thrown
       /\ result' = IF r.thrown = "none" THEN r.buffer ELSE result
       /\ lastCall' = [op |-> "concatenate", called |-> TRUE,
                       threw |-> r.thrown # "none", played |-> FALSE,
                       input |-> slices]
    /\ UNCHANGED <<playerVars, peakVars, blob, audioBuffer, toasts, downloads,
                   playingSliceId, timeVars, pc>>

handleDownloadAll ==
    /\ pc = "page"
    /\ audioBuffer # NoBuffer
    /\ Len(toasts) + downloads < MaxOps
    /\ IF slices = <<>>
       THEN /\ toasts' = Append(toasts, "Nothing to download")
            /\ lastCall' = [op |-> "downloadAll", called |-> FALSE, threw |-> FALSE,
                            played |-> FALSE, input |-> slices]
            /\ UNCHANGED <<storage, result, tempContexts, downloads, blob, thrown>>
       ELSE LET r == concatenateAudioBuffers(storage, audioBuffer, slices) IN
            /\ storage' = r.heap
            /\ tempContexts' = tempContexts + r.open
            /\ thrown' = r.thrown
            /\ lastCall' = [op |-> "downloadAll", called |-> TRUE,
                            threw |-> r.thrown # "none", played |-> FALSE,
                            input |-> slices]
            /\ IF r.thrown # "none"
               THEN /\ toasts' = Append(toasts, "Download failed")
                    /\ UNCHANGED <<result, downloads, blob>>
               ELSE /\ result' = r.buffer
                    /\ blob' = bufferToWav(ChannelData(r.heap, r.buffer))
                    /\ downloads' = downloads + 1
                    /\ UNCHANGED toasts
    /\ UNCHANGED <<playerVars, peakVars, audioBuffer, playingSliceId, timeVars, pc>>

handlePlayAll ==
    /\ pc \in {"page", "ui"}
    /\ audioBuffer # NoBuffer
    /\ Len(toasts) + downloads < MaxOps
    /\ NumCreated(Cur) < MaxSessions
    /\ nextFrame < MaxFrames
    /\ \E quirk \in BOOLEAN :
          LET p0 == [Cur EXCEPT !.raised = "none", !.caught = FALSE]
              p1 == stopAudio(p0, quirk)
          IN
          IF slices = <<>>
          THEN /\ lastCall' = [op |-> "playAll", called |-> FALSE, threw |-> FALSE,
                               played |-> FALSE, input |-> slices]
               /\ UNCHANGED <<playerVars, storage, result, tempContexts, toasts,
                              thrown, playingSliceId>>
          ELSE IF playingSliceId = "all"
          THEN /\ Commit(p1)
               /\ playingSliceId' = "null"
               /\ lastCall' = [op |-> "playAll", called |-> FALSE, threw |-> FALSE,
                               played |-> FALSE, input |-> slices]
               /\ UNCHANGED <<storage, result, tempContexts, toasts, thrown>>
          ELSE LET r == concatenateAudioBuffers(storage, audioBuffer, slices) IN
               /\ storage' = r.heap
               /\ tempContexts' = tempContexts + r.open
               /\ thrown' = r.thrown
               /\ lastCall' = [op |-> "playAll", called |-> TRUE,
                               threw |-> r.thrown # "none",
                               played |-> r.thrown = "none", input |-> slices]
               /\ IF r.thrown # "none"
                  THEN /\ Commit(p1)
                       /\ toasts' = Append(toasts, "Playback failed")
                       /\ UNCHANGED <<result, playingSliceId>>
                  ELSE /\ Commit(playAudio(p1, FALSE, TRUE, TRUE, TRUE, quirk))
                       /\ result' = r.buffer
                       /\ playingSliceId' = "all"
                       /\ UNCHANGED toasts
    /\ UNCHANGED <<peakVars, audioBuffer, downloads, blob, timeVars, pc>>

Marker == 9
Marked == {<<id, i>> \in StorageIds \X (1..(MaxSlices * MaxSrcLen)) :
              i <= Len(storage[id]) /\ storage[id][i] = Marker}

\* Some other code writes one sample of the loaded buffer or of the result;
\* one such probe at a time.
WriteSample ==
    /\ pc = "page"
    /\ Marked = {}
    /\ \E target \in {"source", "result"} :
          LET b == IF target = "source" THEN audioBuffer ELSE result IN
          \E c \in DOMAIN b.data : \E i \in 1..Len(storage[b.data[c]]) :
              /\ storage' = [storage EXCEPT ![b.data[c]][i] = Marker]
              /\ lastCall' = [op |-> target, called |-> FALSE, threw |-> FALSE,
                              played |-> FALSE, input |-> slices]
    /\ UNCHANGED <<playerVars, peakVars, thrown, blob, audioBuffer, result,
                   tempContexts, toasts, downloads, playingSliceId, timeVars, pc>>

\* Channel 1 holds 1, 2, 3, ... and channel 2 holds -1, -2, -3, ...
SourceSamples(c, n) == [i \in 1..n |-> IF c = 1 THEN i ELSE -i]
PageRates == {44100}

SliceAt(k, a, b) ==
    [start |-> a, end |-> b, id |-> <<"slice_auto", 0, k - 1>>, name |-> <<"Slice", k>>]

\* Slice lists the editor can hold for a buffer of n samples: any order, and
\* start = end where a narrow selection was floored.
SliceLists(n) ==
    UNION {[1..m -> {<<a, b>> \in (0..n) \X (0..n) : a <= b}] : m \in 0..MaxSlices}

ComposeInit ==
    /\ PlayerInit
    /\ pc = "page"
    /\ thrown = "none" /\ blob = <<>>
    /\ channels = <<>> /\ sampleRate = 1 /\ threshold = 0 /\ minSliceHalves = 0
    /\ now = 0
    /\ \E n \in 1..MaxSrcLen, C \in 1..2 :
          /\ storage = [id \in StorageIds |->
                           IF id <= C THEN SourceSamples(id, n) ELSE <<>>]
          /\ audioBuffer \in {[data |-> [c \in 1..C |-> c], sampleRate |-> r] : r \in PageRates}
          /\ \E l \in SliceLists(n) :
                slices = [k \in 1..Len(l) |-> SliceAt(k, l[k][1], l[k][2])]
    /\ result = NoBuffer
    /\ tempContexts = 0
    /\ toasts = <<>>
    /\ downloads = 0
    /\ playingSliceId = "null"
    /\ lastCall = NoCall
    /\ TimeIdle

NextCompose ==
    \/ CallConcatenateAudioBuffers
    \/ handleDownloadAll
    \/ handlePlayAll
    \/ WriteSample

SpecCompose == ComposeInit /\ [][NextCompose]_vars

\* ============================================================ player timing
\* The clock is counted in ticks; a second has TicksPerSecond of them.
MaxTime        == 3
MaxDuration    == 2
TicksPerSecond == 2

\* progressLoop: the value handed to onProgressGlobal
ProgressInSegment ==
    LET elapsedTime == currentTime - playbackStartTime
    IN  IF nodes[source].loop /\ loopDuration > 0
        THEN elapsedTime % loopDuration
        ELSE elapsedTime

\* What the closure passed as onProgress stores in playbackProgress.
\* The waveform's closure: (startInSeconds + progressInSegment) / duration.
\* The page's closure: the value it is given, in seconds.
Deliver(closure, progressInSegment) ==
    IF closure.kind = "selection"
    THEN [num |-> closure.startInSeconds + progressInSegment, den |-> bufferDuration]
    ELSE [num |-> progressInSegment, den |-> TicksPerSecond]

\* playAudio(buffer, start, duration, loop, onEnded, onProgress), called by a
\* handler after its own stopAudio(); duration is -1 when it is omitted.
TimedPlay(start, duration, loop, kind, id, quirk) ==
    LET p0 == [Cur EXCEPT !.raised = "none", !.caught = FALSE]
        p1 == stopAudio(p0, quirk)
        p2 == playAudio(p1, loop, TRUE, TRUE, TRUE, quirk)
        playDuration == IF duration >= 0 THEN duration ELSE bufferDuration - start
    IN  /\ Commit(p2)
        /\ loopDuration' = IF loop THEN playDuration ELSE 0
        /\ windowEnd' = IF loop THEN -1 ELSE currentTime + playDuration
        /\ playbackStartTime' = currentTime
        /\ onProgressUi' = [kind |-> kind, startInSeconds |-> start]
        /\ playingSliceId' = id

\* The toggle branch of a handler: stopAudio(); setPlayingSliceId(null)
TimedStop(quirk) ==
    /\ Commit(stopAudio([Cur EXCEPT !.raised = "none", !.caught = FALSE], quirk))
    /\ playingSliceId' = "null"
    /\ UNCHANGED <<loopDuration, windowEnd, playbackStartTime, onProgressUi>>

\* WaveformDisplay: play, or loop, the selection a..b of the buffer.
handlePlaySelection ==
    /\ pc = "timed"
    /\ NumCreated(Cur) < MaxSessions
    /\ nextFrame < MaxFrames
    /\ \E loop, quirk \in BOOLEAN : \E a \in 0..bufferDuration, b \in 0..bufferDuration :
          /\ a < b
          /\ LET currentPlayingId == IF loop THEN "selection_loop" ELSE "selection"
             IN  IF playingSliceId = currentPlayingId
                 THEN TimedStop(quirk)
                 ELSE TimedPlay(a, b - a, loop, "selection", currentPlayingId, quirk)
    /\ UNCHANGED <<peakVars, thrown, blob, storage, audioBuffer, result, tempContexts,
                   toasts, downloads, lastCall, currentTime, bufferDuration,
                   playbackProgress, pc>>

\* Page: play the whole sample.
handlePlayFullSample ==
    /\ pc \in {"timed", "ui"}
    /\ pc = "ui" => audioBuffer # NoBuffer
    /\ NumCreated(Cur) < MaxSessions
    /\ nextFrame < MaxFrames
    /\ \E quirk \in BOOLEAN :
          IF playingSliceId = "full_sample"
          THEN TimedStop(quirk)
          ELSE TimedPlay(0, -1, FALSE, "page", "full_sample", quirk)
    /\ UNCHANGED <<peakVars, thrown, blob, storage, audioBuffer, result, tempContexts,
                   toasts, downloads, lastCall, currentTime, bufferDuration,
                   playbackProgress, pc>>

\* The audio clock advances; a source that reaches the end of its window
\* finishes and its 'ended' event is queued for the main thread.
Tick ==
    /\ pc = "timed"
    /\ currentTime < MaxTime
    /\ currentTime' = currentTime + 1
    /\ LET done == {s \in Sessions : /\ s = source
                                     /\ nodes[s].state = "playing"
                                     /\ ~nodes[s].loop
                                     /\ windowEnd <= currentTime + 1}
       IN  /\ nodes' = [s \in Sessions |->
                           IF s \in done THEN [nodes[s] EXCEPT !.state = "ended"]
                           ELSE nodes[s]]
           /\ endedEvents' = endedEvents \cup done
    /\ UNCHANGED <<audioContext, source, animationFrameId, onProgressGlobal, frames,
                   nextFrame, raised, caught, log, peakVars, thrown, blob, pageVars,
                   playbackStartTime, loopDuration, windowEnd, bufferDuration,
                   onProgressUi, playbackProgress, pc>>

\* The host runs a pending animation frame callback (progressLoop), and the
\* closure it calls moves the cursor.
TimedAnimationFrame ==
    /\ pc = "timed"
    /\ nextFrame < MaxFrames
    /\ \E f \in frames :
          LET p0 == [Cur EXCEPT !.frames = @ \ {f}, !.raised = "none",
                                !.caught = FALSE]
              p1 == progressLoop(p0)
          IN  /\ Commit(p1)
              /\ playbackProgress' = IF Len(p1.log) > Len(log)
                                     THEN Deliver(onProgressUi, ProgressInSegment)
                                     ELSE playbackProgress
    /\ UNCHANGED <<peakVars, thrown, blob, pageVars, currentTime, playbackStartTime,
                   loopDuration, windowEnd, bufferDuration, onProgressUi, pc>>

\* The event loop dispatches a queued 'ended' event; the onEnded closure of
\* the handlers is () => setPlayingSliceId(null).
TimedDispatchEnded ==
    /\ pc \in {"timed", "ui"}
    /\ \E s \in endedEvents, quirk \in BOOLEAN :
          LET p0 == [Cur EXCEPT !.endedEvents = @ \ {s}, !.raised = "none",
                                !.caught = FALSE]
              p1 == IF nodes[s].onended THEN onended(p0, s, quirk) ELSE p0
          IN  /\ Commit(p1)
              /\ playingSliceId' = IF Len(p1.log) > Len(log) THEN "null"
                                   ELSE playingSliceId
    /\ UNCHANGED <<peakVars, thrown, blob, storage, audioBuffer, result, tempContexts,
                   toasts, downloads, lastCall, timeVars, pc>>

TimedInit ==
    /\ PlayerInit
    /\ PeaksIdle
    /\ thrown = "none" /\ blob = <<>>
    /\ PageIdle
    /\ pc = "timed"
    /\ currentTime = 0
    /\ playbackStartTime = 0
    /\ loopDuration = 0
    /\ windowEnd = -1
    /\ bufferDuration \in 1..MaxDuration
    /\ onProgressUi = NoClosure
    /\ playbackProgress = NoProgress

NextTimed ==
    \/ handlePlaySelection
    \/ handlePlayFullSample
    \/ Tick
    \/ TimedAnimationFrame
    \/ TimedDispatchEnded

SpecTimed == TimedInit /\ [][NextTimed]_vars

\* ======================================================== playing indicator
\* The page with a file loaded: Play Sample, Play All, Clear, Change File.

\* Page: resetApp(), the Change File button
resetApp ==
    /\ pc = "ui"
    /\ audioBuffer # NoBuffer
    /\ \E quirk \in BOOLEAN :
          Commit(stopAudio([Cur EXCEPT !.raised = "none", !.caught = FALSE], quirk))
    /\ audioBuffer' = NoBuffer
    /\ slices' = <<>>
    /\ playingSliceId' = "null"
    /\ UNCHANGED <<channels, sampleRate, threshold, minSliceHalves, now, thrown, blob,
                   storage, result, tempContexts, toasts, downloads, lastCall,
                   timeVars, pc>>

\* Page: handleFileLoaded(buffer, fileName), from the uploader shown while no
\* buffer is loaded
handleFileLoaded ==
    /\ pc = "ui"
    /\ audioBuffer = NoBuffer
    /\ \E r \in PageRates : audioBuffer' = [data |-> <<1>>, sampleRate |-> r]
    /\ slices' = <<>>
    /\ playingSliceId' = "null"
    /\ UNCHANGED <<playerVars, channels, sampleRate, threshold, minSliceHalves, now,
                   thrown, blob, storage, result, tempContexts, toasts, downloads,
                   lastCall, timeVars, pc>>

\* Page: the onClearSlices closure given to SliceControls
onClearSlices ==
    /\ pc = "ui"
    /\ audioBuffer # NoBuffer
    /\ \E quirk \in BOOLEAN :
          Commit(stopAudio([Cur EXCEPT !.raised = "none", !.caught = FALSE], quirk))
    /\ playingSliceId' = "null"
    /\ slices' = <<>>
    /\ UNCHANGED <<channels, sampleRate, threshold, minSliceHalves, now, thrown, blob,
                   storage, audioBuffer, result, tempContexts, toasts, downloads,
                   lastCall, timeVars, pc>>

UiInit ==
    /\ PlayerInit
    /\ pc = "ui"
    /\ thrown = "none" /\ blob = <<>>
    /\ channels = <<>> /\ sampleRate = 1 /\ threshold = 0 /\ minSliceHalves = 0
    /\ now = 0
    /\ \E n \in 1..2 :
          /\ storage = [id \in StorageIds |->
                           IF id = 1 THEN SourceSamples(id, n) ELSE <<>>]
          /\ audioBuffer \in {[data |-> <<1>>, sampleRate |-> r] : r \in PageRates}
          /\ \E l \in SliceLists(n) :
                slices = [k \in 1..Len(l) |-> SliceAt(k, l[k][1], l[k][2])]
    /\ result = NoBuffer
    /\ tempContexts = 0
    /\ toasts = <<>>
    /\ downloads = 0
    /\ playingSliceId = "null"
    /\ lastCall = NoCall
    /\ currentTime = 0
    /\ playbackStartTime = 0
    /\ loopDuration = 0
    /\ windowEnd = -1
    /\ bufferDuration = 1
    /\ onProgressUi = NoClosure
    /\ playbackProgress = NoProgress

NextUi ==
    \/ handlePlayFullSample
    \/ handlePlayAll
    \/ resetApp
    \/ handleFileLoaded
    \/ onClearSlices
    \/ SourceEnds
    \/ TimedDispatchEnded

SpecUi == UiInit /\ [][NextUi]_vars

\* ============================================================ slice editing
MaxList    == 2
MaxNow     == 1
MaxEditLen == 3

\* Array.prototype.sort((a, b) => a.start - b.start) is stable: an element
\* goes after every element whose start is not greater.
RECURSIVE SortByStart(_)
SortByStart(list) ==
    IF list = <<>> THEN <<>>
    ELSE LET n      == Len(list)
             x      == list[n]
             sorted == SortByStart(SubSeq(list, 1, n - 1))
             before == SelectSeq(sorted, LAMBDA y : y.start <= x.start)
             after  == SelectSeq(sorted, LAMBDA y : y.start > x.start)
         IN  before \o <<x>> \o after

\* The editor is shown; in "resort" the user adds at most one manual slice.
Editing == pc \in {"edit", "resort"}

\* Slider positions 10, 20 and 50, i.e. thresholds 0.1, 0.2 and 0.5.
AutoThresholds == {1, 2, 5}

\* findPeaks(audioBuffer, threshold / 100, 0.1, 0.05): at a rate that is a
\* multiple of 10 the doubled minimum 2 * 0.05 * rate is rate / 10.
handleAutoSlice ==
    /\ Editing
    /\ Len(toasts) < MaxOps
    /\ \E th \in AutoThresholds :
          slices' = findPeaksWith(Buffer, th, sampleRate \div 10, now)
    /\ toasts' = Append(toasts, "Auto-slicing complete")
    /\ UNCHANGED <<playerVars, channels, sampleRate, threshold, minSliceHalves, now,
                   thrown, blob, storage, audioBuffer, result, tempContexts, downloads,
                   playingSliceId, lastCall, timeVars, pc>>

\* Ends of a selection the waveform accepts, in quarters of the buffer.
SelectionPoints == {0, 1, 2, 4}

\* The list handleManualSlice(a / 4, b / 4) sets at time t.
ManualSliced_append(list, a, b, t) ==
    LET newSlice == [id |-> <<"slice", t>>,
                     start |-> (a * Length) \div 4,
                     end |-> (b * Length) \div 4,
                     name |-> <<"Slice", Len(list) + 1>>]
    IN  Append(list, newSlice)

ManualSliced(list, a, b, t) ==
    LET newSlice == [id |-> <<"slice", t>>,
                     start |-> (a * Length) \div 4,
                     end |-> (b * Length) \div 4,
                     name |-> <<"Slice", Len(list) + 1>>]
    IN  SortByStart(Append(list, newSlice))

\* handleManualSlice(start, end) with start = a / 4 and end = b / 4; in
\* "resort" the list the handler was given is kept in lastCall.
handleManualSlice ==
    /\ Editing
    /\ pc = "edit" => Len(slices) < MaxList
    /\ \E a \in SelectionPoints, b \in SelectionPoints :
          /\ a < b
          /\ slices' = ManualSliced(slices, a, b, now)
    /\ pc' = IF pc = "resort" THEN "resorted" ELSE pc
    /\ lastCall' = IF pc = "resort"
                   THEN [NoCall EXCEPT !.op = "handleManualSlice", !.called = TRUE,
                                       !.input = slices]
                   ELSE lastCall
    /\ UNCHANGED <<playerVars, channels, sampleRate, threshold, minSliceHalves, now,
                   thrown, blob, storage, audioBuffer, result, tempContexts, toasts,
                   downloads, playingSliceId, timeVars>>

NewNames == {<<"Kick">>}

\* slices.map((slice) => slice.id === id ? { ...slice, name: newName } : slice)
Renamed(list, id, newName) ==
    [j \in DOMAIN list |->
        IF list[j].id = id THEN [list[j] EXCEPT !.name = newName] ELSE list[j]]

\* SliceList: handleNameChange(id, newName)
handleNameChange ==
    /\ pc = "edit"
    /\ \E k \in DOMAIN slices, newName \in NewNames :
          slices' = Renamed(slices, slices[k].id, newName)
    /\ UNCHANGED <<playerVars, channels, sampleRate, threshold, minSliceHalves, now,
                   thrown, blob, storage, audioBuffer, result, tempContexts, toasts,
                   downloads, playingSliceId, lastCall, timeVars, pc>>

\* newSlices.splice(at, 1) / newSlices.splice(at, 0, item), 0-based
SpliceOut(list, at) == SubSeq(list, 1, at) \o SubSeq(list, at + 2, Len(list))
SpliceIn_append(list, at, item) == Append(list, item)

SpliceIn(list, at, item) ==
    SubSeq(list, 1, at) \o <<item>> \o SubSeq(list, at + 1, Len(list))

\* The list handleDrop stores: the dragged item taken out and put back.
Dropped(list, dragItem, dragOverItem) ==
    SpliceIn(SpliceOut(list, dragItem), dragOverItem, list[dragItem + 1])

\* SliceList: handleDrop with dragItem and dragOverItem set
handleDrop ==
    /\ Editing
    /\ \E dragItem \in 0..(Len(slices) - 1), dragOverItem \in 0..(Len(slices) - 1) :
          slices' = Dropped(slices, dragItem, dragOverItem)
    /\ UNCHANGED <<playerVars, channels, sampleRate, threshold, minSliceHalves, now,
                   thrown, blob, storage, audioBuffer, result, tempContexts, toasts,
                   downloads, playingSliceId, lastCall, timeVars, pc>>

\* SliceList: handleDelete(id)
handleDelete ==
    /\ pc = "edit"
    /\ \E k \in DOMAIN slices :
          slices' = SelectSeq(slices, LAMBDA sl : sl.id # slices[k].id)
    /\ UNCHANGED <<playerVars, channels, sampleRate, threshold, minSliceHalves, now,
                   thrown, blob, storage, audioBuffer, result, tempContexts, toasts,
                   downloads, playingSliceId, lastCall, timeVars, pc>>

\* Date.now() moves on between two handlers, or does not.
ClockAdvances ==
    /\ pc = "edit"
    /\ now < MaxNow
    /\ now' = now + 1
    /\ UNCHANGED <<playerVars, channels, sampleRate, threshold, minSliceHalves, slices,
                   otherVars, pc>>

EditInit ==
    /\ PlayerInit
    /\ OtherIdle
    /\ pc = "edit"
    /\ \E n \in 1..MaxEditLen : \E c \in SeqsOfLen({0, 5}, n) : channels = <<c>>
    /\ sampleRate = 10
    /\ threshold = 0 /\ minSliceHalves = 0
    /\ now = 0
    /\ slices = <<>>

NextEdit ==
    \/ handleAutoSlice
    \/ handleManualSlice
    \/ handleNameChange
    \/ handleDrop
    \/ handleDelete
    \/ ClockAdvances

SpecEdit == EditInit /\ [][NextEdit]_vars

\* One manual slice added to a list made by auto-slicing and reordered by
\* drag-and-drop.
ResortInit ==
    /\ PlayerInit
    /\ OtherIdle
    /\ pc = "resort"
    /\ \E n \in 2..MaxEditLen : \E c \in SeqsOfLen({0, 5}, n) : channels = <<c>>
    /\ sampleRate = 10
    /\ threshold = 0 /\ minSliceHalves = 0
    /\ now \in 0..MaxNow
    /\ slices = <<>>

NextResort ==
    \/ handleAutoSlice
    \/ handleDrop
    \/ handleManualSlice

SpecResort == ResortInit /\ [][NextResort]_vars

\* =================================================================== claims
Last == Len(log)

Playing == {s \in Sessions : nodes[s].state = "playing"}

\* Session s was the engine's source when stopAudio / playAudio was called.
StoppedAt(i, s)   == log[i].op = "stop" /\ log[i].cur = s
PreemptedAt(i, s) == log[i].op = "play" /\ log[i].cur = s
StoppedOrPreempted(s) ==
    \E i \in DOMAIN log : StoppedAt(i, s) \/ PreemptedAt(i, s)

OnEndedCalls(s)    == {i \in DOMAIN log : log[i].op = "onEnded" /\ log[i].s = s}
OnProgressCalls(s) == {i \in DOMAIN log : log[i].op = "onProgress" /\ log[i].s = s}

\* playAudio was called with loop = true for session s.
LoopRequested(s) ==
    \E i \in DOMAIN log : log[i].op = "play" /\ log[i].s = s /\ log[i].loop

\* C1: in every reachable state of the player at most one source is started
\* and not yet stopped, and it is the engine's current source.
C1_AtMostOneVoice ==
    /\ Cardinality(Playing) <= 1
    /\ \A s \in Playing : source = s

\* C1 witness: a playAudio call preempted a sounding session, which is now
\* stopped while the new one plays.
C1_Witness ==
    \E i \in DOMAIN log :
        /\ log[i].op = "play" /\ log[i].cur # 0
        /\ nodes[log[i].cur].state = "stopped"
        /\ nodes[log[i].s].state = "playing"

\* C2: once playAudio has been called while session s was the engine's
\* source, the onEnded callback of s is not invoked.
C2_PreemptedNeverEnds ==
    \A i \in DOMAIN log : \A j \in DOMAIN log :
        (i < j /\ log[i].op = "play" /\ log[i].cur # 0 /\ log[j].op = "onEnded")
            => log[j].s # log[i].cur

\* C2 witness: the preempted session had an onEnded callback and an 'ended'
\* event already queued at the preempting call; the event has been
\* dispatched since.
C2_Witness ==
    \E i \in DOMAIN log :
        /\ log[i].op = "play" /\ log[i].cur # 0 /\ log[i].ev
        /\ nodes[log[i].cur].onEndedCb
        /\ log[i].cur \notin endedEvents
        /\ nodes[log[i].s].state = "playing"

\* C3: every pending poll frame was scheduled by the current session (the
\* old session's frame is gone when the new one is scheduled), every
\* onProgress invoked belongs to the session that is current at that moment,
\* and after a playAudio call no onProgress of an earlier session is invoked.
C3_NoInterleavedProgress ==
    /\ \A f \in frames : source # 0 /\ f.owner = source
    /\ \A j \in DOMAIN log :
          log[j].op = "onProgress" => log[j].s = log[j].cur
    /\ \A i \in DOMAIN log : \A j \in DOMAIN log :
          (i < j /\ log[i].op = "play" /\ log[j].op = "onProgress")
              => log[j].s >= log[i].s

\* C3 witness: a session that had reported progress and had a poll frame
\* pending was preempted by a session whose onProgress has been invoked since.
C3_Witness ==
    \E i \in DOMAIN log : \E j \in DOMAIN log :
        /\ i < j
        /\ log[i].op = "play" /\ log[i].cur # 0 /\ log[i].fr
        /\ OnProgressCalls(log[i].cur) # {}
        /\ log[j].op = "onProgress" /\ log[j].s = log[i].s

\* C4: after a stopAudio() call made while session s was the engine's
\* source, neither onProgress nor onEnded of s is invoked.
C4_SilentAfterStop ==
    \A i \in DOMAIN log : \A j \in DOMAIN log :
        (i < j /\ log[i].op = "stop" /\ log[i].cur # 0
               /\ log[j].op \in {"onProgress", "onEnded"})
            => log[j].s # log[i].cur

\* C4 witness: at the stopAudio() call a poll frame and an 'ended' event of
\* the stopped session were both pending; the event has been dispatched.
C4_Witness ==
    \E i \in DOMAIN log :
        /\ log[i].op = "stop" /\ log[i].cur # 0
        /\ log[i].fr /\ log[i].ev
        /\ nodes[log[i].cur].onEndedCb
        /\ log[i].cur \notin endedEvents

\* The window of session s was exhausted and its 'ended' event has been
\* handled, without a stopAudio() or playAudio() call ending it before.
EndedNaturally(s) ==
    /\ nodes[s].state = "ended"
    /\ s \notin endedEvents
    /\ ~StoppedOrPreempted(s)

\* C5: for a non-looping session that ended naturally the engine left the
\* session (Idle at the moment onEnded runs), onEnded was invoked exactly once
\* (when the caller passed one), and no onProgress of it was invoked after.
C5_NaturalEnd ==
    \A s \in Sessions :
        /\ Cardinality(OnEndedCalls(s)) <= 1
        /\ \A i \in OnEndedCalls(s) :
              /\ log[i].idle
              /\ \A j \in OnProgressCalls(s) : j < i
        /\ EndedNaturally(s) =>
              /\ source # s
              /\ ~nodes[s].connected /\ ~nodes[s].onended
              /\ \A f \in frames : f.owner # s
              /\ nodes[s].onEndedCb => Cardinality(OnEndedCalls(s)) = 1

\* C5 witness: a session that reported progress ended naturally and its
\* onEnded has been invoked.
C5_Witness ==
    \E s \in Sessions :
        /\ EndedNaturally(s)
        /\ OnProgressCalls(s) # {}
        /\ OnEndedCalls(s) # {}

\* C6: onEnded of a session started with loop = true is never invoked, and
\* such a session stays Playing until stopAudio() or playAudio() is called.
C6_LoopNeverEnds ==
    \A s \in Sessions :
        LoopRequested(s) =>
            /\ OnEndedCalls(s) = {}
            /\ (nodes[s].state \notin {"none", "created"} /\ ~StoppedOrPreempted(s))
                  => (source = s /\ nodes[s].state = "playing")

\* C6 witness: a looping session with an onEnded callback was stopped or
\* preempted and the 'ended' event of its source has been dispatched.
C6_Witness ==
    \E s \in Sessions :
        /\ LoopRequested(s)
        /\ nodes[s].onEndedCb
        /\ nodes[s].state = "stopped"
        /\ s \notin endedEvents

StopStep == Len(log') = Len(log) + 1 /\ log'[Len(log')].op = "stop"

\* C7: stopAudio() never raises and leaves the engine Idle, whatever the
\* state it is called in; called in Idle it changes nothing (so a second
\* call leaves the state of the first).
C7_StopAlwaysSafe ==
    /\ []((Last > 0 /\ log[Last].op = "stop") => (raised = "none" /\ IdleIn(Cur)))
    /\ [][(StopStep /\ IdleIn(Cur)) =>
             UNCHANGED <<audioContext, source, animationFrameId, onProgressGlobal,
                         nodes, frames, endedEvents, nextFrame>>]_vars

\* C7 witness: stopAudio() was called twice in a row, the first call on a
\* session whose source had already ended and reported an error on stop,
\* which was swallowed.
C7_Witness ==
    /\ Last >= 2
    /\ log[Last].op = "stop" /\ log[Last - 1].op = "stop"
    /\ log[Last - 1].cur # 0
    /\ nodes[log[Last - 1].cur].state = "ended"
    /\ log[Last - 1].caught
    /\ log[Last].idle

\* --- findPeaks
\* |sample[i-1]| <= threshold and |sample[i]| > threshold on channel 0,
\* for the 0-based index i.
Crossing(i) ==
    LET prev == channels[1][i]
        cur  == channels[1][i + 1]
    IN  /\ (IF prev < 0 THEN -prev ELSE prev) <= threshold
        /\ (IF cur < 0 THEN -cur ELSE cur) > threshold

\* C8: every slice findPeaks returns satisfies 0 <= start < end <= length and
\* is at least minSliceDuration * sampleRate samples long.
C8_SliceBounds ==
    pc = "done" =>
        \A k \in DOMAIN slices :
            /\ 0 <= slices[k].start
            /\ slices[k].start < slices[k].end
            /\ slices[k].end <= Length
            /\ 2 * (slices[k].end - slices[k].start) >= minSliceHalves * sampleRate

\* C8 on buffers of at least one sample.
C8_NonEmptyBuffer == Length >= 1 => C8_SliceBounds

\* C9: when findPeaks returns at least one slice, the slices tile the buffer:
\* the first starts at 0, each next one starts at the previous end, the last
\* ends at length, and every sample index lies in exactly one slice.
C9_Tiling ==
    (pc = "done" /\ Len(slices) > 0) =>
        /\ slices[1].start = 0
        /\ \A k \in 1..(Len(slices) - 1) :
              /\ slices[k + 1].start = slices[k].end
              /\ slices[k].start < slices[k + 1].start
        /\ slices[Len(slices)].end = Length
        /\ \A x \in 0..(Length - 1) :
              Cardinality({k \in DOMAIN slices :
                              slices[k].start <= x /\ x < slices[k].end}) = 1

\* C9 witness: a slice was accepted at a crossing and the remainder after it,
\* too short to be a slice, was merged into it.
C9_Witness ==
    /\ pc = "done" /\ Len(slices) >= 2
    /\ LET last == slices[Len(slices)]
       IN  \E i \in (last.start + 1)..(last.end - 1) :
              /\ Crossing(i)
              /\ 2 * (i - last.start) >= minSliceHalves * sampleRate
              /\ 2 * (Length - i) < minSliceHalves * sampleRate

\* C10: with minSliceDuration = 0 the interior boundaries are exactly the
\* indices of channel 0 where the amplitude crosses the threshold upwards;
\* scenario A yields [{0,100},{100,500},{500,1000}].
C10_BoundariesAreCrossings ==
    (pc = "done" /\ minSliceHalves = 0) =>
        /\ {slices[k].start : k \in 2..Len(slices)}
              = {i \in 1..(Length - 1) : Crossing(i)}
        /\ (channels = <<ScenarioA>> /\ threshold = 2) =>
              [k \in DOMAIN slices |-> <<slices[k].start, slices[k].end>>]
                  = << <<0, 100>>, <<100, 500>>, <<500, 1000>> >>

\* C10 witness: scenario A has been segmented.
C10_Witness ==
    /\ pc = "done"
    /\ channels = <<ScenarioA>> /\ threshold = 2 /\ minSliceHalves = 0
    /\ Len(slices) = 3

\* C11: when no sample of channel 0 crosses the threshold upwards, findPeaks
\* returns the single slice {0, length} if length >= minSliceDuration *
\* sampleRate, and no slice otherwise.
C11_NoCrossing ==
    (pc = "done" /\ \A i \in 1..(Length - 1) : ~Crossing(i)) =>
        IF 2 * Length >= minSliceHalves * sampleRate
        THEN /\ Len(slices) = 1
             /\ slices[1].start = 0 /\ slices[1].end = Length
        ELSE slices = <<>>

\* C11 witness: continuous sound, exactly as long as the minimum, returned
\* as one slice.
C11_Witness ==
    /\ pc = "done" /\ Length >= 2
    /\ \A i \in 1..Length : channels[1][i] > threshold
    /\ 2 * Length = minSliceHalves * sampleRate
    /\ Len(slices) = 1

\* C12: findPeaks called with a threshold outside [0, 1] fails with
\* InvalidArgument and returns no slices; with one inside it never fails.
C12_ThresholdChecked ==
    pc = "done" =>
        IF threshold \in 0..10
        THEN thrown = "none"
        ELSE thrown = "InvalidArgument" /\ slices = <<>>

\* ------------------------------------------------------------ WAV encoding
NumChannels == Len(channels)
\* The little-endian fields of a blob; off is the byte offset from 0.
Byte(off)  == blob[off + 1]
LE16(off)  == Byte(off) + 256 * Byte(off + 1)
LE32(off)  == LE16(off) + 65536 * LE16(off + 2)
SInt16(off) == IF LE16(off) >= 32768 THEN LE16(off) - 65536 ELSE LE16(off)

\* C13: the blob has 44 + F*C*2 bytes and its header holds length - 8,
\* format chunk size 16, format 1, C, R, R*C*2, C*2, 16 and a data length of
\* total - 44; a buffer of no frames gives the 44 header bytes alone.
C13_WavHeader ==
    pc = "wavDone" =>
        LET total == Len(blob) IN
        /\ total = 44 + Length * NumChannels * 2
        /\ LE32(4) = total - 8
        /\ LE32(16) = 16
        /\ LE16(20) = 1
        /\ LE16(22) = NumChannels
        /\ LE32(24) = sampleRate
        /\ LE32(28) = sampleRate * NumChannels * 2
        /\ LE16(32) = NumChannels * 2
        /\ LE16(34) = 16
        /\ LE32(40) = total - 44
        /\ (Length = 0 => total = 44)

\* C13 witness: a stereo buffer of two frames at 44100 Hz was encoded.
C13_Witness ==
    /\ pc = "wavDone" /\ NumChannels = 2 /\ Length = 2 /\ sampleRate = 44100
    /\ Len(blob) = 52

\* C14: every sample written is trunc(c * 32768) for c < 0 and
\* trunc(c * 32767) for c >= 0, c being the value clamped to [-1, 1].
C14_NegativeScale ==
    pc = "wavDone" =>
        \A f \in 1..Length : \A c \in 1..NumChannels :
            LET v == channels[c][f]
                cl == Max(-10, Min(10, v))
                written == SInt16(44 + ((f - 1) * NumChannels + (c - 1)) * 2)
            IN  written = IF cl < 0 THEN Trunc(cl * 32768, 10)
                                    ELSE Trunc(cl * 32767, 10)

Extremes == <<(<<10, -10>>), (<<10, -10>>)>>

\* C15 as stated: two channels of [1.0, -1.0] give 48 bytes, bytes 44..47
\* being 7F FF 80 00.
C15_AsStated ==
    (pc = "wavDone" /\ channels = Extremes) =>
        /\ Len(blob) = 48
        /\ <<Byte(44), Byte(45), Byte(46), Byte(47)>> = <<127, 255, 128, 0>>

\* C15: two channels of [1.0, -1.0] give 52 bytes, bytes 44..51 being
\* FF 7F FF 7F 00 80 00 80 (interleaved, low byte first).
C15_Extremes ==
    (pc = "wavDone" /\ channels = Extremes) =>
        /\ Len(blob) = 52
        /\ [k \in 1..8 |-> Byte(43 + k)] = <<255, 127, 255, 127, 0, 128, 0, 128>>

\* C15 witness: that buffer was encoded.
C15_Witness ==
    pc = "wavDone" /\ channels = Extremes /\ Len(blob) > 44

\* ------------------------------------------------------------ composition
SourceData(c) == storage[audioBuffer.data[c]]
ResultData(c) == storage[result.data[c]]
ByCall == lastCall.op \in {"concatenate", "downloadAll", "playAll"}
ValidSlice(sl) == 0 <= sl.start /\ sl.start < sl.end /\ sl.end <= Len(SourceData(1))

\* C16: for a non-empty list of valid slices the result has the source's
\* rate and channel count, its length is the sum of the slice lengths, and
\* in every channel the k-th slice of the list lies at the offset given by
\* the slices before it in the list, sample for sample.
C16_ListOrder ==
    LET list == lastCall.input IN
    (/\ ByCall /\ lastCall.called /\ list # <<>>
     /\ \A k \in DOMAIN list : ValidSlice(list[k])) =>
        /\ ~lastCall.threw
        /\ result.sampleRate = audioBuffer.sampleRate
        /\ Len(result.data) = Len(audioBuffer.data)
        /\ \A c \in DOMAIN result.data :
              /\ Len(ResultData(c)) = TotalLength(list)
              /\ \A k \in DOMAIN list :
                    \A j \in 1..(list[k].end - list[k].start) :
                        ResultData(c)[TotalLength(SubSeq(list, 1, k - 1)) + j]
                            = SourceData(c)[list[k].start + j]

\* C16 witness: two channels, the later part of the source first.
C16_Witness ==
    /\ ByCall /\ lastCall.called /\ ~lastCall.threw
    /\ Len(lastCall.input) = 2
    /\ lastCall.input[1].start = 2 /\ lastCall.input[1].end = 3
    /\ lastCall.input[2].start = 0 /\ lastCall.input[2].end = 1
    /\ Len(audioBuffer.data) = 2
    /\ ResultData(1) = <<3, 1>> /\ ResultData(2) = <<-3, -1>>

\* A call of concatenateAudioBuffers that throws leaves its context open.
ThrowStep == lastCall'.threw /\ tempContexts' = tempContexts + 1

\* C17: concatenation throws exactly when the list is empty or the summed
\* length is zero; the throwing call changes neither the source buffer nor
\* the slice list, and Play All / Download then show a notification and
\* start no playback and produce no file.
C17_EmptyComposition ==
    /\ [](lastCall.called =>
            (lastCall.threw <=>
                (lastCall.input = <<>> \/ TotalLength(lastCall.input) = 0)))
    /\ []((lastCall.threw /\ lastCall.op = "playAll") =>
            (toasts # <<>> /\ toasts[Len(toasts)] = "Playback failed" /\ ~lastCall.played))
    /\ []((lastCall.threw /\ lastCall.op = "downloadAll") =>
            (toasts # <<>> /\ toasts[Len(toasts)] = "Download failed"))
    /\ [][ThrowStep =>
            /\ slices' = slices /\ audioBuffer' = audioBuffer /\ storage' = storage
            /\ result' = result /\ downloads' = downloads /\ blob' = blob
            /\ \A s \in Sessions : nodes'[s].state \in {"created", "playing"}
                                     => nodes[s].state = nodes'[s].state
            /\ lastCall'.op \in {"playAll", "downloadAll"}
                  => Len(toasts') = Len(toasts) + 1]_vars

\* C17 witness: Play All over slices of no length failed and said so.
C17_Witness ==
    /\ lastCall.op = "playAll" /\ lastCall.threw
    /\ lastCall.input # <<>>
    /\ toasts = <<"Playback failed">>
    /\ \A s \in Sessions : nodes[s].state = "none"

\* C18: concatenateAudioBuffers and bufferToWav never write to the source
\* buffer, and the result shares no array with it: a write to the result
\* leaves the source as it was, and a write to the source leaves the result.
C18_NoAliasing ==
    /\ [](\A c \in DOMAIN result.data, d \in DOMAIN audioBuffer.data :
             result.data[c] # audioBuffer.data[d])
    /\ [][/\ lastCall'.op \in {"concatenate", "downloadAll", "playAll", "result"}
             => \A d \in DOMAIN audioBuffer.data :
                   storage'[audioBuffer.data[d]] = storage[audioBuffer.data[d]]
          /\ lastCall'.op = "source"
             => \A c \in DOMAIN result.data :
                   storage'[result.data[c]] = storage[result.data[c]]]_vars

\* C18 witness: a sample of the result was overwritten after a composition
\* and the source still holds its own samples.
C18_Witness ==
    /\ lastCall.op = "result"
    /\ \E c \in DOMAIN result.data : \E i \in 1..Len(ResultData(c)) :
          ResultData(c)[i] = Marker
    /\ \A d \in DOMAIN audioBuffer.data :
          SourceData(d) = SourceSamples(d, Len(SourceData(d)))

\* ------------------------------------------------------------------ timing
\* C19: every progress value delivered to the playback cursor lies in [0, 1].
C19_ProgressNormalized ==
    playbackProgress # NoProgress =>
        /\ 0 <= playbackProgress.num
        /\ playbackProgress.num <= playbackProgress.den

\* ----------------------------------------------------------------- editing
\* C20: the ids of the slices in the list are pairwise distinct.
C20_DistinctIds ==
    pc = "edit" =>
        \A i \in DOMAIN slices, j \in DOMAIN slices :
            slices[i].id = slices[j].id => i = j

C22_ManualSliceValid ==
    pc = "edit" =>
        \A k \in DOMAIN slices :
            slices[k].id[1] = "slice" =>
                /\ 0 <= slices[k].start
                /\ slices[k].start < slices[k].end
                /\ slices[k].end <= Length

\* The minimum slice length of the call, doubled, and the last accepted
\* boundary before index i as the returned slices show it.
Min2 == minSliceHalves * sampleRate
BoundaryBefore(i) ==
    LET S == {0} \cup {slices[k].start : k \in {j \in DOMAIN slices : slices[j].start < i}}
    IN  CHOOSE b \in S : \A c \in S : c <= b

\* C23: a transient at i whose candidate slice, from the last accepted
\* boundary to i, is shorter than the minimum makes no boundary: no slice
\* starts or ends at i, and the slice that starts at that earlier boundary
\* runs past i.
C23_RejectedTransient ==
    pc = "done" =>
        \A i \in 1..(Length - 1) :
            (Crossing(i) /\ 2 * (i - BoundaryBefore(i)) < Min2) =>
                /\ \A k \in DOMAIN slices : slices[k].start # i /\ slices[k].end # i
                /\ slices # <<>> =>
                      \E k \in DOMAIN slices :
                          slices[k].start = BoundaryBefore(i) /\ slices[k].end > i

\* C23 witness: a rejected transient lies inside a slice that ends at a
\* later, accepted one.
C23_Witness ==
    /\ pc = "done"
    /\ \E k \in 1..(Len(slices) - 1) : \E i \in (slices[k].start + 1)..(slices[k].end - 1) :
          /\ Crossing(i)
          /\ 2 * (i - slices[k].start) < Min2
          /\ Crossing(slices[k].end)

\* The state of findPeaks when its scan loop is over.
AfterScan ==
    Scan(getChannelData(Buffer, 0), threshold, Min2, 1, Length,
         [slices |-> <<>>, lastSliceEnd |-> 0])
Bounds(list) == [k \in DOMAIN list |-> <<list[k].start, list[k].end>>]

C25_PositionShown ==
    [][(TimedAnimationFrame /\ Len(log') > Len(log)) =>
          playbackProgress'.num * bufferDuration =
              (onProgressUi.startInSeconds + ProgressInSegment) * playbackProgress'.den]_vars

\* ------------------------------------------------------------------ re-sort
\* C26: after a manual slice is added the list is in ascending order of
\* start, whatever order it was given in, and holds the slices it was given
\* and the new one.
C26_ManualSliceResorts ==
    pc = "resorted" =>
        /\ \A k \in 1..(Len(slices) - 1) : slices[k].start <= slices[k + 1].start
        /\ Len(slices) = Len(lastCall.input) + 1
        /\ \A k \in DOMAIN lastCall.input :
              \E j \in DOMAIN slices : slices[j] = lastCall.input[k]

C26_Witness ==
    /\ pc = "resorted"
    /\ Len(lastCall.input) = 2
    /\ lastCall.input[1].start > lastCall.input[2].start
    /\ slices[1] = lastCall.input[2]
    /\ slices[1].start < slices[2].start
    /\ slices[2].start < slices[3].start

\* ------------------------------------------------------- playing indicator
\* C27: once a handler or callback has completed, playingSliceId is null
\* exactly when the engine holds no session.
C27_IndicatorMatchesEngine ==
    pc = "ui" => (playingSliceId = "null" <=> source = 0)

\* ------------------------------------------------------------ pending frames
\* C28: at most one progress-poll frame is pending, its handle is the one in
\* animationFrameId, and a frame is pending only while a source exists, also
\* when onProgress calls stopAudio() or playAudio().
C28_OnePendingFrame ==
    pc = "player" =>
        /\ Cardinality(frames) <= 1
        /\ \A f \in frames : f.id = animationFrameId
        /\ frames # {} => source # 0

\* ------------------------------------------------------ failed playAudio
\* C30: a source that playAudio created but could not start never gets an
\* onEnded or onProgress call, and the next stopAudio() or playAudio() does
\* not fail because of it: the call drops the leftover source, and a
\* playAudio whose own start succeeds is playing afterwards.
C30_FailedStartIsCleared ==
    /\ [](\A s \in Sessions :
            nodes[s].state = "created" =>
                /\ s \notin endedEvents
                /\ \A i \in DOMAIN log :
                      log[i].op \in {"onEnded", "onProgress"} => log[i].s # s)
    /\ [][(/\ source # 0
            /\ nodes[source].state = "created"
            /\ (CallStopAudio \/ CallPlayAudio)) =>
              /\ source' # source
              /\ ~nodes'[source].connected
              /\ ~nodes'[source].onended
              /\ CallStopAudio => (raised' = "none" /\ IdleIn(Cur'))
              /\ raised' # "none" => (source' # 0 /\ nodes'[source'].state = "created")
              /\ (raised' = "none" /\ source' # 0) =>
                    nodes'[source'].state = "playing"]_vars

C30_Witness ==
    \E s \in Sessions :
        /\ nodes[s].state = "created"
        /\ ~nodes[s].connected
        /\ source # 0
        /\ source # s
        /\ nodes[source].state = "playing"
        /\ \E i \in DOMAIN log : log[i].op = "onProgress" /\ log[i].s = source

\* ------------------------------------------------------ temporary contexts
\* C29: every audio context opened by a composition has been closed when the
\* operation has returned or failed; only the player's context stays open.
C29_TemporaryContextsClosed ==
    pc = "page" => tempContexts = 0
====
